---- MODULE Spec2Model ----
(***************************************************************************)
(* Model of the prediction server in src/app.py: the two input validation  *)
(* functions, the Prediction table with its unique observation_id, and the *)
(* three Flask handlers /predict, /update and /list-db-contents run by     *)
(* concurrent workers.                                                     *)
(*                                                                         *)
(* A request body (request.data) is a sequence of <<key, token>> pairs,    *)
(* a token being the JSON text of a value with its JSON type.  get_json    *)
(* turns it into the Python dict the handlers work on.  An error message   *)
(* is a record [text, names]: text is the formatted message and names the  *)
(* Python set formatted into it (Python does not fix the order in which a  *)
(* set is printed), {} when the message formats no set.                    *)
(***************************************************************************)
EXTENDS Integers, Sequences, FiniteSets, TLC

VARIABLES
    store,      \* rows of the Prediction table, in insertion order
    pc,         \* per worker: the handler step it is about to run
    route,      \* per worker: the handler of the request it holds
    request,    \* per worker: the body of the request being handled
    label,      \* per worker: /predict's label from the pipeline
    p,          \* per worker: the Prediction instance (/predict: saved or not; /update: fetched)
    response,   \* per worker: the jsonify'd response
    calls,      \* per worker: pipeline.predict calls made for the current request
    fresh,      \* per worker: no row had the request's observation_id when it arrived
    served,     \* requests accepted so far
    inserted    \* the <<observation_id, body>> of every /predict whose save succeeded, in order

vars == <<store, pc, route, request, label, p, response, calls, fresh, served, inserted>>

----------------------------------------------------------------------------
(* Bounds of the model *)

NumExtra == 2        \* unrecognized column names a request body may carry
MaxRequests == 3     \* requests accepted in one run

Workers == {"w1", "w2"}

Ids == {"id1", "id2"}

----------------------------------------------------------------------------
(* The schema: check_valid_column's valid_columns and                      *)
(* check_categorical_values' valid_category_map                            *)

valid_columns ==
    { "observation_id", "Type", "Date",
      "Part of a standard enforcement protocol",
      "Galactic X", "Galactic Y", "Reproduction", "Age range",
      "Self-defined species category", "Officer-defined species category",
      "Governing law", "Object of inspection",
      "Inspection involving more than just outerwear",
      "Enforcement station" }

\* Variant: the keys taken in sorted order instead of the dict's order
category_keys_sorted == <<"Age range", "Reproduction", "Type">>

\* the keys of valid_category_map in dict (insertion) order
category_keys == <<"Type", "Reproduction", "Age range">>

valid_category_map ==
    [ Type |-> <<"Entity inspection", "Entity and Spaceship search", "Spaceship search">>,
      Reproduction |-> <<"Asexual", "Sexual">> ] @@
    ("Age range" :> <<"Senior", "Adult", "Young Adult", "Young", "Child">>)

----------------------------------------------------------------------------
(* Request bodies and request.get_json() *)

Str(v) == [t |-> "str", v |-> v]
Num(v) == [t |-> "num", v |-> v]
Bool(v) == [t |-> "bool", v |-> v]

\* The keys of a /predict body in the order of the documented request, with
\* the documented values of the fields no check reads.
FieldOrder ==
    << "observation_id", "Type", "Date",
       "Part of a standard enforcement protocol",
       "Galactic X", "Galactic Y", "Reproduction", "Age range",
       "Self-defined species category", "Officer-defined species category",
       "Governing law", "Object of inspection",
       "Inspection involving more than just outerwear",
       "Enforcement station" >>

SampleValue(key) ==
    CASE key = "Date" -> Str("3919-08-16 14:37:00+00:00")
      [] key = "Part of a standard enforcement protocol" -> Bool("true")
      [] key = "Galactic X" -> Num("3434.23")
      [] key = "Galactic Y" -> Num("2321.12")
      [] key = "Self-defined species category" -> Str("Terran - Northern")
      [] key = "Officer-defined species category" -> Str("Terran")
      [] key = "Governing law" -> Str("Intergalactic Substance Regulation 3919")
      [] key = "Object of inspection" -> Str("Controlled substances")
      [] key = "Inspection involving more than just outerwear" -> Bool("false")
      [] key = "Enforcement station" -> Str("Dyson Sphere F76-JK")
      [] OTHER -> Str("")

ExtraColumn(i) ==
    IF i = 1 THEN "TypeX" ELSE IF i = 2 THEN "label" ELSE "extra" \o ToString(i)

ExtraColumns == {ExtraColumn(i) : i \in 1..NumExtra}

\* Values tried for the categorical fields: two allowed ones and one that
\* differs from an allowed one in case only.
TypeValues == {"Entity inspection", "Spaceship search", "entity inspection"}
ReproductionValues == {"Sexual", "Asexual", "sexual"}
AgeValues == {"Young", "Adult", "Teen"}

\* Required fields a body may leave out.
Droppable == {"observation_id", "Type", "Date", "Age range"}

RECURSIVE Fields(_, _, _)
Fields(i, given, dropped) ==
    IF i > Len(FieldOrder) THEN <<>>
    ELSE LET key == FieldOrder[i]
             rest == Fields(i + 1, given, dropped)
         IN  IF key \in dropped THEN rest
             ELSE IF key \in DOMAIN given THEN <<(<<key, Str(given[key])>>)>> \o rest
             ELSE <<(<<key, SampleValue(key)>>)>> \o rest

RECURSIVE Extras(_, _)
Extras(i, extras) ==
    IF i > NumExtra THEN <<>>
    ELSE IF ExtraColumn(i) \in extras
         THEN <<(<<ExtraColumn(i), Str("Entity inspection")>>)>> \o Extras(i + 1, extras)
         ELSE Extras(i + 1, extras)

Body(id, type, reproduction, age, dropped, extras) ==
    Fields(1, [observation_id |-> id, Type |-> type, Reproduction |-> reproduction]
                 @@ ("Age range" :> age), dropped)
    \o Extras(1, extras)

\* Every /predict body of the model.
AllBodies ==
    { Body(id, t, r, a, d, e) :
        id \in Ids, t \in TypeValues, r \in ReproductionValues, a \in AgeValues,
        d \in SUBSET Droppable, e \in SUBSET ExtraColumns }

\* The /predict bodies the concurrent workers receive: per id two bodies that
\* pass validation and one for each way of failing it.
WorkerBodies ==
    UNION { { Body(id, "Entity inspection", "Sexual", "Young", {}, {}),
              Body(id, "Spaceship search", "Sexual", "Young", {}, {}),
              Body(id, "entity inspection", "sexual", "Young", {}, {}),
              Body(id, "Entity inspection", "Sexual", "Young", {"Date"}, {"TypeX"}),
              Body(id, "Entity inspection", "Sexual", "Teen", {}, {"TypeX"}) } : id \in Ids }

\* The /update bodies: just the two fields the handler reads, and bodies that
\* carry a third field no /predict would accept.
UpdateBodies ==
    { << <<"observation_id", Str(id)>>, <<"label", Bool(b)>> >> :
        id \in Ids, b \in {"true", "false"} }
    \cup
    { << <<"observation_id", Str(id)>>, <<"label", Bool("false")>>,
         <<"Type", Str("entity inspection")>> >> : id \in Ids }

\* json.loads of one value: JSON true/false become Python booleans; strings
\* and numbers are kept as their text.
loads(token) == IF token.t = "bool" THEN token.v = "true" ELSE token.v

Keys(body) == {body[i][1] : i \in DOMAIN body}

\* request.get_json(): the dict of the body; a repeated key keeps its last value.
get_json(body) ==
    [ key \in Keys(body) |->
        LET last == CHOOSE i \in DOMAIN body :
                        /\ body[i][1] = key
                        /\ \A j \in DOMAIN body : body[j][1] = key => j <= i
        IN  loads(body[last][2]) ]

----------------------------------------------------------------------------
(* Input validation functions *)

Message(text, names) == [text |-> text, names |-> names]

\* Variant: the unrecognized columns are looked for before the missing ones
check_valid_column_extra_first(observation) ==
    LET keys == DOMAIN observation
        missing == valid_columns \ keys
        extra == keys \ valid_columns
    IN  IF Cardinality(extra) > 0
            THEN <<FALSE, Message("Unrecognized columns provided: ", extra)>>
        ELSE IF Cardinality(missing) > 0
            THEN <<FALSE, Message("Missing columns: ", missing)>>
        ELSE <<TRUE, Message("", {})>>

\* Variant: only the missing columns are looked for
check_valid_column_missing_only(observation) ==
    LET missing == valid_columns \ DOMAIN observation
    IN  IF Cardinality(missing) > 0
            THEN <<FALSE, Message("Missing columns: ", missing)>>
        ELSE <<TRUE, Message("", {})>>

\* check_valid_column: <<ok, error>>
check_valid_column(observation) ==
    LET keys == DOMAIN observation
        missing == valid_columns \ keys
        extra == keys \ valid_columns
    IN  IF Cardinality(missing) > 0
            THEN <<FALSE, Message("Missing columns: ", missing)>>
        ELSE IF Cardinality(extra) > 0
            THEN <<FALSE, Message("Unrecognized columns provided: ", extra)>>
        ELSE <<TRUE, Message("", {})>>

\* value not in valid_categories
InList(value, list) == \E i \in DOMAIN list : list[i] = value

\* ",".join(["'{}'".format(v) for v in valid_categories])
RECURSIVE JoinQuoted(_, _)
JoinQuoted(list, i) ==
    IF i > Len(list) THEN ""
    ELSE "'" \o list[i] \o "'" \o (IF i < Len(list) THEN "," ELSE "") \o JoinQuoted(list, i + 1)

\* One turn of check_categorical_values' loop and the turns after it.  The
\* values of the categorical fields are JSON strings in every body of the
\* model, which "{}".format prints as they are.
RECURSIVE CategoriesFrom(_, _)
CategoriesFrom(observation, i) ==
    IF i > Len(category_keys) THEN <<TRUE, Message("", {})>>
    ELSE LET key == category_keys[i]
             valid_categories == valid_category_map[key]
         IN  IF key \in DOMAIN observation
             THEN LET value == observation[key]
                  IN  IF ~InList(value, valid_categories)
                      THEN <<FALSE, Message("Invalid value provided for " \o key \o ": "
                                            \o value \o ". Allowed values are: "
                                            \o JoinQuoted(valid_categories, 1), {})>>
                      ELSE CategoriesFrom(observation, i + 1)
             ELSE <<FALSE, Message("Categorical field {} missing", {})>>

\* Variant: the loop leaves out the first key of valid_category_map
check_categorical_values_without_type(observation) == CategoriesFrom(observation, 2)

\* check_categorical_values: <<ok, error>>
check_categorical_values(observation) == CategoriesFrom(observation, 1)

----------------------------------------------------------------------------
(* The Prediction table *)

\* Variant: the label handed over as str(label), as /update does
Prediction_label_as_str(observation_id, observation, lbl) ==
    [id |-> 0, observation_id |-> observation_id, observation |-> observation,
     label |-> (IF lbl THEN "True" ELSE "False") # ""]

\* Prediction(observation_id=..., observation=..., label=...): an instance not yet saved
Prediction(observation_id, observation, lbl) ==
    [id |-> 0, observation_id |-> observation_id, observation |-> observation, label |-> lbl]

NoPrediction == Prediction("", <<>>, FALSE)

\* Variant: observation_id = TextField(), no unique index
IntegrityError_without_index(rows, observation_id) == FALSE

\* observation_id = TextField(unique=True): the index refuses a second row with the value
IntegrityError(rows, observation_id) ==
    \E i \in DOMAIN rows : rows[i].observation_id = observation_id

\* save() of a new instance: INSERT, the row takes the next primary key
Insert(rows, inst) == Append(rows, [inst EXCEPT !.id = Len(rows) + 1])

\* str() and bool() of Python
str(b) == IF b THEN "True" ELSE "False"
bool(text) == text # ""

\* Variant: the UPDATE has no WHERE clause and rewrites every row's label
Update_every_row(rows, inst) ==
    [ i \in DOMAIN rows |->
        IF rows[i].id = inst.id
        THEN [ id |-> inst.id, observation_id |-> inst.observation_id,
               observation |-> inst.observation, label |-> inst.label # "" ]
        ELSE [rows[i] EXCEPT !.label = inst.label # ""] ]

\* save() of a fetched instance: UPDATE of every field WHERE id = the instance's
\* primary key; BooleanField writes bool(label)
Update(rows, inst) ==
    [ i \in DOMAIN rows |->
        IF rows[i].id = inst.id
        THEN [ id |-> inst.id, observation_id |-> inst.observation_id,
               observation |-> inst.observation, label |-> bool(inst.label) ]
        ELSE rows[i] ]

\* Prediction.observation_id == ...: the rows a query selects
Selected(rows, observation_id) ==
    {i \in DOMAIN rows : rows[i].observation_id = observation_id}

\* Prediction.get(...): the first selected row
Get(rows, observation_id) ==
    rows[CHOOSE i \in Selected(rows, observation_id) :
            \A j \in Selected(rows, observation_id) : i <= j]

----------------------------------------------------------------------------
(* The handlers *)

NoResponse == [pending |-> TRUE]

Init ==
    /\ store = <<>>
    /\ pc = [w \in Workers |-> "idle"]
    /\ route = [w \in Workers |-> "none"]
    /\ request = [w \in Workers |-> <<>>]
    /\ label = [w \in Workers |-> FALSE]
    /\ p = [w \in Workers |-> NoPrediction]
    /\ response = [w \in Workers |-> NoResponse]
    /\ calls = [w \in Workers |-> 0]
    /\ fresh = [w \in Workers |-> FALSE]
    /\ served = 0
    /\ inserted = <<>>

\* A worker takes a request: the state every handler starts from.
Accept(w, handler, body, first) ==
    /\ pc[w] = "idle"
    /\ served < MaxRequests
    /\ served' = served + 1
    /\ pc' = [pc EXCEPT ![w] = first]
    /\ route' = [route EXCEPT ![w] = handler]
    /\ request' = [request EXCEPT ![w] = body]
    /\ label' = [label EXCEPT ![w] = FALSE]
    /\ p' = [p EXCEPT ![w] = NoPrediction]
    /\ response' = [response EXCEPT ![w] = NoResponse]
    /\ calls' = [calls EXCEPT ![w] = 0]
    /\ fresh' = [fresh EXCEPT ![w] =
                    \/ "observation_id" \notin Keys(body)
                    \/ ~IntegrityError(store, get_json(body)["observation_id"])]
    /\ UNCHANGED <<store, inserted>>

\* predict, lines 141-144: the request arrives and is deserialized
PredictRequest(w) ==
    \E body \in WorkerBodies : Accept(w, "predict", body, "check_valid_column")

\* Variant: the error is put in the response but the handler does not return
Checked_without_return(w, result, next) ==
    /\ pc' = [pc EXCEPT ![w] = next]
    /\ response' = [response EXCEPT ![w] =
                        IF result[1] THEN response[w] ELSE [error |-> result[2]]]
    /\ UNCHANGED <<store, route, request, label, p, calls, fresh, served, inserted>>

\* A validation step's way on: return the error, or go on to the next step
Checked(w, result, next) ==
    /\ pc' = [pc EXCEPT ![w] = IF result[1] THEN next ELSE "done"]
    /\ response' = [response EXCEPT ![w] =
                        IF result[1] THEN response[w] ELSE [error |-> result[2]]]
    /\ UNCHANGED <<store, route, request, label, p, calls, fresh, served, inserted>>

\* predict, lines 146-149
PredictCheckColumns(w) ==
    /\ pc[w] = "check_valid_column"
    /\ Checked(w, check_valid_column(get_json(request[w])), "check_categorical_values")

\* Variant: the second check's verdict is not the one tested (if not columns_ok)
PredictCheckCategories_columns_ok(w) ==
    /\ pc[w] = "check_categorical_values"
    /\ Checked(w, <<check_valid_column(get_json(request[w]))[1],
                    check_categorical_values(get_json(request[w]))[2]>>, "pipeline")

\* predict, lines 151-154
PredictCheckCategories(w) ==
    /\ pc[w] = "check_categorical_values"
    /\ Checked(w, check_categorical_values(get_json(request[w])), "pipeline")

\* predict, lines 156-164: the pipeline's label, the response and the instance
PredictPipeline(w) ==
    /\ pc[w] = "pipeline"
    /\ \E lbl \in BOOLEAN :
        LET _id == get_json(request[w])["observation_id"]
        IN  /\ label' = [label EXCEPT ![w] = lbl]
            /\ response' = [response EXCEPT ![w] = [observation_id |-> _id, label |-> lbl]]
            /\ p' = [p EXCEPT ![w] = Prediction(_id, request[w], lbl)]
    /\ calls' = [calls EXCEPT ![w] = calls[w] + 1]
    /\ pc' = [pc EXCEPT ![w] = "save"]
    /\ UNCHANGED <<store, route, request, fresh, served, inserted>>

\* Variant: uniqueness by an application-level check made when the request
\* arrived, the table having no unique index
PredictSave_check_then_act(w) ==
    /\ pc[w] = "save"
    /\ IF ~fresh[w]
       THEN /\ response' = [response EXCEPT ![w] =
                    response[w] @@ [error |->
                        Message("Observation ID: \"" \o p[w].observation_id
                                \o "\" already exists", {})]]
            /\ UNCHANGED <<store, p, inserted>>
       ELSE /\ store' = Insert(store, p[w])
            /\ p' = [p EXCEPT ![w].id = Len(store) + 1]
            /\ inserted' = Append(inserted, <<p[w].observation_id, p[w].observation>>)
            /\ UNCHANGED response
    /\ pc' = [pc EXCEPT ![w] = "done"]
    /\ UNCHANGED <<route, request, label, calls, fresh, served>>

\* Variant: on a duplicate the stored row is replaced by the new prediction
PredictSave_replace(w) ==
    /\ pc[w] = "save"
    /\ IF IntegrityError(store, p[w].observation_id)
       THEN /\ response' = [response EXCEPT ![w] =
                    response[w] @@ [error |->
                        Message("Observation ID: \"" \o p[w].observation_id
                                \o "\" already exists", {})]]
            /\ store' = [ i \in DOMAIN store |->
                            IF store[i].observation_id = p[w].observation_id
                            THEN [p[w] EXCEPT !.id = store[i].id]
                            ELSE store[i] ]
            /\ UNCHANGED <<p, inserted>>
       ELSE /\ store' = Insert(store, p[w])
            /\ p' = [p EXCEPT ![w].id = Len(store) + 1]
            /\ inserted' = Append(inserted, <<p[w].observation_id, p[w].observation>>)
            /\ UNCHANGED response
    /\ pc' = [pc EXCEPT ![w] = "done"]
    /\ UNCHANGED <<route, request, label, calls, fresh, served>>

\* Variant: DB.rollback() after the duplicate also undoes the latest insert
PredictSave_rollback_insert(w) ==
    /\ pc[w] = "save"
    /\ IF IntegrityError(store, p[w].observation_id)
       THEN /\ response' = [response EXCEPT ![w] =
                    response[w] @@ [error |->
                        Message("Observation ID: \"" \o p[w].observation_id
                                \o "\" already exists", {})]]
            /\ store' = SubSeq(store, 1, Len(store) - 1)
            /\ UNCHANGED <<p, inserted>>
       ELSE /\ store' = Insert(store, p[w])
            /\ p' = [p EXCEPT ![w].id = Len(store) + 1]
            /\ inserted' = Append(inserted, <<p[w].observation_id, p[w].observation>>)
            /\ UNCHANGED response
    /\ pc' = [pc EXCEPT ![w] = "done"]
    /\ UNCHANGED <<route, request, label, calls, fresh, served>>

\* predict, lines 165-172: the insert, or the duplicate's error added to the response
PredictSave(w) ==
    /\ pc[w] = "save"
    /\ IF IntegrityError(store, p[w].observation_id)
       THEN /\ response' = [response EXCEPT ![w] =
                    response[w] @@ [error |->
                        Message("Observation ID: \"" \o p[w].observation_id
                                \o "\" already exists", {})]]
            /\ UNCHANGED <<store, p, inserted>>
       ELSE /\ store' = Insert(store, p[w])
            /\ p' = [p EXCEPT ![w].id = Len(store) + 1]
            /\ inserted' = Append(inserted, <<p[w].observation_id, p[w].observation>>)
            /\ UNCHANGED response
    /\ pc' = [pc EXCEPT ![w] = "done"]
    /\ UNCHANGED <<route, request, label, calls, fresh, served>>

\* update, lines 177-178
UpdateRequest(w) ==
    \E body \in UpdateBodies : Accept(w, "update", body, "get")

\* Variant: get_or_create instead of get
UpdateGet_or_create(w) ==
    /\ pc[w] = "get"
    /\ LET observation_id == get_json(request[w])["observation_id"]
       IN  IF Selected(store, observation_id) # {}
           THEN /\ p' = [p EXCEPT ![w] = Get(store, observation_id)]
                /\ UNCHANGED <<store, inserted>>
           ELSE /\ store' = Insert(store, Prediction(observation_id, <<>>, FALSE))
                /\ p' = [p EXCEPT ![w] =
                            [Prediction(observation_id, <<>>, FALSE) EXCEPT !.id = Len(store) + 1]]
    /\ pc' = [pc EXCEPT ![w] = "update_save"]
    /\ UNCHANGED <<response, route, request, label, calls, fresh, served, inserted>>

\* Variant: /update validates the columns as /predict does before it looks up
UpdateGet_validating(w) ==
    /\ pc[w] = "get"
    /\ LET observation_id == get_json(request[w])["observation_id"]
           columns == check_valid_column(get_json(request[w]))
       IN  IF ~columns[1]
           THEN /\ response' = [response EXCEPT ![w] = [error |-> columns[2]]]
                /\ pc' = [pc EXCEPT ![w] = "done"]
                /\ UNCHANGED p
           ELSE IF Selected(store, observation_id) # {}
           THEN /\ p' = [p EXCEPT ![w] = Get(store, observation_id)]
                /\ pc' = [pc EXCEPT ![w] = "update_save"]
                /\ UNCHANGED response
           ELSE /\ response' = [response EXCEPT ![w] =
                        [error |-> Message("Observation ID: \"" \o observation_id
                                           \o "\" does not exist", {})]]
                /\ pc' = [pc EXCEPT ![w] = "done"]
                /\ UNCHANGED p
    /\ UNCHANGED <<store, route, request, label, calls, fresh, served, inserted>>

\* update, lines 180 and 185-187: the lookup, or the error of a missing row
UpdateGet(w) ==
    /\ pc[w] = "get"
    /\ LET observation_id == get_json(request[w])["observation_id"]
       IN  IF Selected(store, observation_id) # {}
           THEN /\ p' = [p EXCEPT ![w] = Get(store, observation_id)]
                /\ pc' = [pc EXCEPT ![w] = "update_save"]
                /\ UNCHANGED response
           ELSE /\ response' = [response EXCEPT ![w] =
                        [error |-> Message("Observation ID: \"" \o observation_id
                                           \o "\" does not exist", {})]]
                /\ pc' = [pc EXCEPT ![w] = "done"]
                /\ UNCHANGED p
    /\ UNCHANGED <<store, route, request, label, calls, fresh, served, inserted>>

\* Variant: the request body is written to the fetched row's observation
UpdateSave_with_body(w) ==
    /\ pc[w] = "update_save"
    /\ LET obs == get_json(request[w])
           saved == [p[w] EXCEPT !.label = str(obs["label"]), !.observation = request[w]]
       IN  /\ store' = Update(store, saved)
           /\ p' = [p EXCEPT ![w].label = bool(saved.label)]
           /\ response' = [response EXCEPT ![w] =
                    [observation_id |-> obs["observation_id"], label |-> obs["label"]]]
    /\ pc' = [pc EXCEPT ![w] = "done"]
    /\ UNCHANGED <<route, request, label, calls, fresh, served, inserted>>

\* update, lines 181-184: the label as a string, the save and the response
UpdateSave(w) ==
    /\ pc[w] = "update_save"
    /\ LET obs == get_json(request[w])
           saved == [p[w] EXCEPT !.label = str(obs["label"])]
       IN  /\ store' = Update(store, saved)
           /\ p' = [p EXCEPT ![w].label = bool(saved.label)]
           /\ response' = [response EXCEPT ![w] =
                    [observation_id |-> obs["observation_id"], label |-> obs["label"]]]
    /\ pc' = [pc EXCEPT ![w] = "done"]
    /\ UNCHANGED <<route, request, label, calls, fresh, served, inserted>>

\* list_db_contents, line 191
ListRequest(w) == Accept(w, "list", <<>>, "select")

\* Variant: the query is cut to its first row
ListSelect_first(w) ==
    /\ pc[w] = "select"
    /\ response' = [response EXCEPT ![w] = [rows |-> IF store = <<>> THEN <<>> ELSE <<store[1]>>]]
    /\ pc' = [pc EXCEPT ![w] = "done"]
    /\ UNCHANGED <<store, route, request, label, p, calls, fresh, served, inserted>>

\* list_db_contents, lines 192-194: model_to_dict of every row
ListSelect(w) ==
    /\ pc[w] = "select"
    /\ response' = [response EXCEPT ![w] = [rows |-> store]]
    /\ pc' = [pc EXCEPT ![w] = "done"]
    /\ UNCHANGED <<store, route, request, label, p, calls, fresh, served, inserted>>

\* The response leaves; the worker is free for the next request.
Return(w) ==
    /\ pc[w] = "done"
    /\ pc' = [pc EXCEPT ![w] = "idle"]
    /\ route' = [route EXCEPT ![w] = "none"]
    /\ request' = [request EXCEPT ![w] = <<>>]
    /\ label' = [label EXCEPT ![w] = FALSE]
    /\ p' = [p EXCEPT ![w] = NoPrediction]
    /\ response' = [response EXCEPT ![w] = NoResponse]
    /\ calls' = [calls EXCEPT ![w] = 0]
    /\ fresh' = [fresh EXCEPT ![w] = FALSE]
    /\ UNCHANGED <<store, served, inserted>>

Next ==
    \E w \in Workers :
        \/ PredictRequest(w)
        \/ PredictCheckColumns(w)
        \/ PredictCheckCategories(w)
        \/ PredictPipeline(w)
        \/ PredictSave(w)
        \/ UpdateRequest(w)
        \/ UpdateGet(w)
        \/ UpdateSave(w)
        \/ ListRequest(w)
        \/ ListSelect(w)
        \/ Return(w)

Spec == Init /\ [][Next]_vars

----------------------------------------------------------------------------
(* One /predict request, over every body of the model: the server holds    *)
(* no row, or the row of an earlier /predict for id1, and a worker has     *)
(* just received the request.                                              *)

StoredBefore ==
    {<<>>} \cup
    { Insert(<<>>, Prediction("id1", Body("id1", "Entity inspection", "Sexual", "Young", {}, {}), lbl)) :
        lbl \in BOOLEAN }

InitOne ==
    \E body \in AllBodies, rows \in StoredBefore :
        /\ store = rows
        /\ pc = [w \in Workers |-> IF w = "w1" THEN "check_valid_column" ELSE "idle"]
        /\ route = [w \in Workers |-> IF w = "w1" THEN "predict" ELSE "none"]
        /\ request = [w \in Workers |-> IF w = "w1" THEN body ELSE <<>>]
        /\ label = [w \in Workers |-> FALSE]
        /\ p = [w \in Workers |-> NoPrediction]
        /\ response = [w \in Workers |-> NoResponse]
        /\ calls = [w \in Workers |-> 0]
        /\ fresh = [w \in Workers |->
                        /\ w = "w1"
                        /\ \/ "observation_id" \notin Keys(body)
                           \/ ~IntegrityError(rows, get_json(body)["observation_id"])]
        /\ served = Len(rows) + 1
        /\ inserted = [i \in DOMAIN rows |-> <<rows[i].observation_id, rows[i].observation>>]

NextOne ==
    \E w \in Workers :
        \/ PredictCheckColumns(w)
        \/ PredictCheckCategories(w)
        \/ PredictPipeline(w)
        \/ PredictSave(w)
        \/ Return(w)

SpecOne == InitOne /\ [][NextOne]_vars

\* A handler, once started, runs to its return: no step of it waits.
SpecOneFair == SpecOne /\ WF_vars(NextOne)

----------------------------------------------------------------------------
(* The requests served one after the other: a worker takes a request only  *)
(* when no other worker is in the middle of one.                           *)

Serial(w) == \A v \in Workers \ {w} : pc[v] \in {"idle", "done"}

NextSerial ==
    \E w \in Workers :
        \/ Serial(w) /\ PredictRequest(w)
        \/ Serial(w) /\ UpdateRequest(w)
        \/ Serial(w) /\ ListRequest(w)
        \/ PredictCheckColumns(w)
        \/ PredictCheckCategories(w)
        \/ PredictPipeline(w)
        \/ PredictSave(w)
        \/ UpdateGet(w)
        \/ UpdateSave(w)
        \/ ListSelect(w)
        \/ Return(w)

SpecSerial == Init /\ [][NextSerial]_vars

----------------------------------------------------------------------------
(* check_categorical_values called on its own, over every body of the      *)
(* model: the result is kept as the worker's response.                     *)

InitCall ==
    \E body \in AllBodies :
        /\ store = <<>>
        /\ pc = [w \in Workers |-> IF w = "w1" THEN "call" ELSE "idle"]
        /\ route = [w \in Workers |-> IF w = "w1" THEN "check_categorical_values" ELSE "none"]
        /\ request = [w \in Workers |-> IF w = "w1" THEN body ELSE <<>>]
        /\ label = [w \in Workers |-> FALSE]
        /\ p = [w \in Workers |-> NoPrediction]
        /\ response = [w \in Workers |-> NoResponse]
        /\ calls = [w \in Workers |-> 0]
        /\ fresh = [w \in Workers |-> FALSE]
        /\ served = 0
        /\ inserted = <<>>

\* categories_ok, error = check_categorical_values(observation)
CheckCategoriesCall(w) ==
    /\ pc[w] = "call"
    /\ LET result == check_categorical_values(get_json(request[w]))
       IN  response' = [response EXCEPT ![w] = [categories_ok |-> result[1], error |-> result[2]]]
    /\ pc' = [pc EXCEPT ![w] = "done"]
    /\ UNCHANGED <<store, route, request, label, p, calls, fresh, served, inserted>>

NextCall == \E w \in Workers : CheckCategoriesCall(w) \/ Return(w)

SpecCall == InitCall /\ [][NextCall]_vars

----------------------------------------------------------------------------
(* Vocabulary of the properties *)

\* the dict a worker's handler works on
Observation(w) == get_json(request[w])

\* the observation_id a worker's request carries
RequestId(w) == Observation(w)["observation_id"]

\* observation_id plus the 13 domain fields
RequiredFields == {FieldOrder[i] : i \in DOMAIN FieldOrder}

CategoricalFields == {"Type", "Reproduction", "Age range"}

AllowedSet(key) == {valid_category_map[key][i] : i \in DOMAIN valid_category_map[key]}

MissingFields(w) == RequiredFields \ Keys(request[w])

ExtraFields(w) == Keys(request[w]) \ RequiredFields

InvalidCategory(w, key) == Observation(w)[key] \notin AllowedSet(key)

WellFormed(w) ==
    /\ Keys(request[w]) = RequiredFields
    /\ Cardinality(Keys(request[w])) = 14
    /\ \A key \in CategoricalFields : ~InvalidCategory(w, key)

Refused(w) == "error" \in DOMAIN response[w]

AlreadyExists(id) == Message("Observation ID: \"" \o id \o "\" already exists", {})

DoesNotExist(id) == Message("Observation ID: \"" \o id \o "\" does not exist", {})

RowsOf(rows, id) == {i \in DOMAIN rows : rows[i].observation_id = id}

\* the worker has run the pipeline for its /predict request and finished
Predicted(w) == route[w] = "predict" /\ pc[w] = "done" /\ calls[w] = 1

----------------------------------------------------------------------------
(* C1: in every reachable state of any interleaving of /predict, /update   *)
(* and /list-db-contents requests the table holds at most one row per      *)
(* observation_id.                                                         *)
C1_OneRecordPerId ==
    \A i, j \in DOMAIN store :
        store[i].observation_id = store[j].observation_id => i = j

\* two rows are stored and a /predict for a stored id has been refused
C1_Witness ==
    /\ Len(store) = 2
    /\ \E w \in Workers : Predicted(w) /\ Refused(w)

(* C2: of two /predict requests with the same observation_id that are in   *)
(* flight together, never both insert; when the id was not stored as they  *)
(* arrived exactly one inserts, and the one refused returns its own label  *)
(* with the 'already exists' error.                                        *)
C2_ConcurrentInsert ==
    \A w1, w2 \in Workers :
        (/\ w1 # w2
         /\ Predicted(w1) /\ Predicted(w2)
         /\ RequestId(w1) = RequestId(w2))
        => /\ Refused(w1) \/ Refused(w2)
           /\ fresh[w1] /\ fresh[w2] => ~(Refused(w1) /\ Refused(w2))
           /\ Cardinality(RowsOf(store, RequestId(w1))) = 1
           /\ \A w \in {w1, w2} :
                Refused(w) =>
                    /\ DOMAIN response[w] = {"observation_id", "label", "error"}
                    /\ response[w].observation_id = RequestId(w)
                    /\ response[w].label = label[w]
                    /\ response[w].error = AlreadyExists(RequestId(w))

\* both arrived before either inserted; the loser's label is not the stored one
C2_Witness ==
    \E w1, w2 \in Workers :
        /\ w1 # w2
        /\ Predicted(w1) /\ Predicted(w2)
        /\ RequestId(w1) = RequestId(w2)
        /\ fresh[w1] /\ fresh[w2]
        /\ Refused(w2) /\ ~Refused(w1)
        /\ label[w1] # label[w2]

(* C3: a valid /predict whose id is not stored inserts a row and answers   *)
(* {observation_id, label} without an error; a following valid /predict    *)
(* for the same id answers observation_id, its own fresh label and the     *)
(* 'already exists' error, no step of it changes the table, and the table  *)
(* holds exactly one row for the id.                                       *)
C3_SecondPredict ==
    [][\A w \in Workers :
        (route[w] = "predict" /\ pc[w] # pc'[w]) =>
            /\ (pc[w] = "save" /\ ~fresh[w]) =>
                    /\ response'[w] = [observation_id |-> RequestId(w),
                                       label |-> label[w],
                                       error |-> AlreadyExists(RequestId(w))]
                    /\ Cardinality(RowsOf(store', RequestId(w))) = 1
            /\ ~fresh[w] => store' = store
            /\ (pc[w] = "save" /\ RowsOf(store, RequestId(w)) = {}) =>
                    /\ DOMAIN response'[w] = {"observation_id", "label"}
                    /\ Cardinality(RowsOf(store', RequestId(w))) = 1
                    /\ Len(store') = Len(store) + 1
      ]_vars

\* the second request carried another body and got another label than the
\* first, and the row is still the first's
C3_Witness ==
    \E w \in Workers :
        /\ Predicted(w) /\ ~fresh[w] /\ Refused(w)
        /\ \E i \in RowsOf(store, RequestId(w)) :
            /\ store[i].observation # request[w]
            /\ store[i].label # label[w]

(* C4: when a valid /predict saves an observation_id that is not stored,   *)
(* it answers {observation_id, label} without an error key and right after *)
(* the save the table holds a row for the id whose label is the pipeline's *)
(* output and whose observation is the raw request body.                   *)
C4_InsertStoresPrediction ==
    [][\A w \in Workers :
        (/\ route[w] = "predict" /\ pc[w] = "save" /\ pc'[w] = "done"
         /\ RowsOf(store, RequestId(w)) = {})
        => /\ response'[w] = [observation_id |-> RequestId(w), label |-> label[w]]
           /\ \E i \in DOMAIN store' :
                /\ RowsOf(store', RequestId(w)) = {i}
                /\ store'[i].label = label[w]
                /\ store'[i].observation = request[w]
      ]_vars

\* a /predict has inserted a row labelled FALSE by the pipeline
C4_Witness ==
    \E w \in Workers :
        /\ Predicted(w) /\ ~Refused(w) /\ label[w] = FALSE
        /\ \E i \in RowsOf(store, RequestId(w)) :
            store[i].observation = request[w] /\ store[i].label = FALSE

(* C5: a /predict that fails either validation check answers with an error *)
(* only, never calls the pipeline and writes nothing to the table.         *)
C5_ValidationFailureFrame ==
    \A w \in Workers :
        (/\ route[w] = "predict"
         /\ \/ ~check_valid_column(Observation(w))[1]
            \/ ~check_categorical_values(Observation(w))[1])
        => /\ pc[w] \in {"check_valid_column", "check_categorical_values", "done"}
           /\ calls[w] = 0
           /\ p[w] = NoPrediction
           /\ \A i \in DOMAIN store : store[i].observation # request[w]
           /\ pc[w] = "done" => DOMAIN response[w] = {"error"}

\* a request with an unrecognized column only has been answered while rows are stored
C5_Witness ==
    \E w \in Workers :
        /\ route[w] = "predict" /\ pc[w] = "done"
        /\ MissingFields(w) = {} /\ ExtraFields(w) # {}
        /\ DOMAIN response[w] = {"error"}
        /\ Len(store) > 0

----------------------------------------------------------------------------
(* Properties of one /predict request, over every body (SpecOne) *)

\* the checks of the worker's request are over
Validated(w) ==
    route[w] = "predict" /\ pc[w] \notin {"check_valid_column", "check_categorical_values"}

\* the request wrote nothing: the table is as it was when the request arrived
Untouched(w) == store \in StoredBefore /\ p[w] = NoPrediction

\* the categorical fields in the order the check reports them
FirstInvalid(w) ==
    IF InvalidCategory(w, "Type") THEN "Type"
    ELSE IF InvalidCategory(w, "Reproduction") THEN "Reproduction"
    ELSE "Age range"

AllowedText(key) ==
    CASE key = "Type" -> "'Entity inspection','Entity and Spaceship search','Spaceship search'"
      [] key = "Reproduction" -> "'Asexual','Sexual'"
      [] key = "Age range" -> "'Senior','Adult','Young Adult','Young','Child'"

(* C6: /predict passes validation, and so calls the pipeline, exactly when *)
(* the body's keys are the 14 required fields, none missing and none       *)
(* extra, and Type, Reproduction and Age range each hold a value of their  *)
(* allowed set, compared case-sensitively; every other body is answered    *)
(* with a validation error.                                                *)
C6_PassesIffWellFormed ==
    \A w \in Workers :
        route[w] = "predict" =>
            /\ pc[w] \in {"pipeline", "save"} => WellFormed(w)
            /\ pc[w] = "done" =>
                IF WellFormed(w)
                THEN calls[w] = 1 /\ {"observation_id", "label"} \subseteq DOMAIN response[w]
                ELSE calls[w] = 0 /\ DOMAIN response[w] = {"error"}

\* a body with the exact keys whose Type differs from an allowed value in
\* case only has been refused
C6_Witness ==
    \E w \in Workers :
        /\ route[w] = "predict" /\ pc[w] = "done"
        /\ Keys(request[w]) = RequiredFields
        /\ Observation(w)["Type"] = "entity inspection"
        /\ ~InvalidCategory(w, "Reproduction") /\ ~InvalidCategory(w, "Age range")
        /\ DOMAIN response[w] = {"error"}

(* C7: a body missing at least one required field, with or without         *)
(* unrecognized fields, is answered with the missing-columns error naming  *)
(* exactly the missing required fields, and the table is not written.      *)
C7_MissingColumns ==
    \A w \in Workers :
        (Validated(w) /\ MissingFields(w) # {}) =>
            /\ pc[w] = "done"
            /\ DOMAIN response[w] = {"error"}
            /\ response[w].error = Message("Missing columns: ", MissingFields(w))
            /\ Untouched(w)

\* two fields are missing and an unrecognized one is present
C7_Witness ==
    \E w \in Workers :
        /\ Validated(w) /\ pc[w] = "done"
        /\ Cardinality(MissingFields(w)) = 2 /\ ExtraFields(w) # {}
        /\ response[w].error.names = MissingFields(w)

(* C8: a body with at least one unrecognized field and no missing field is *)
(* answered with the unrecognized-columns error naming exactly the extra   *)
(* fields, whether or not its categorical values are valid.                *)
C8_UnrecognizedColumns ==
    \A w \in Workers :
        (Validated(w) /\ MissingFields(w) = {} /\ ExtraFields(w) # {}) =>
            /\ pc[w] = "done"
            /\ DOMAIN response[w] = {"error"}
            /\ response[w].error = Message("Unrecognized columns provided: ", ExtraFields(w))

\* two extra fields and valid categorical values
C8_Witness ==
    \E w \in Workers :
        /\ Validated(w) /\ pc[w] = "done"
        /\ MissingFields(w) = {} /\ Cardinality(ExtraFields(w)) = 2
        /\ \A key \in CategoricalFields : ~InvalidCategory(w, key)
        /\ response[w].error.names = ExtraFields(w)

(* C9: a body with exactly the required keys and an out-of-set value in    *)
(* Type, Reproduction or Age range is answered with the error naming the   *)
(* first such field in that order, its value and that field's allowed      *)
(* values; later invalid fields are not reported and the table is not      *)
(* written.                                                                *)
C9_FirstInvalidCategory ==
    \A w \in Workers :
        (/\ Validated(w)
         /\ Keys(request[w]) = RequiredFields
         /\ \E key \in CategoricalFields : InvalidCategory(w, key))
        => /\ pc[w] = "done"
           /\ DOMAIN response[w] = {"error"}
           /\ response[w].error =
                Message("Invalid value provided for " \o FirstInvalid(w) \o ": "
                        \o Observation(w)[FirstInvalid(w)] \o ". Allowed values are: "
                        \o AllowedText(FirstInvalid(w)), {})
           /\ Untouched(w)

\* Type is valid, Reproduction and Age range are not: Reproduction is reported
C9_Witness ==
    \E w \in Workers :
        /\ Validated(w) /\ pc[w] = "done"
        /\ Keys(request[w]) = RequiredFields
        /\ ~InvalidCategory(w, "Type")
        /\ InvalidCategory(w, "Reproduction") /\ InvalidCategory(w, "Age range")
        /\ response[w].error.text =
            "Invalid value provided for Reproduction: sexual. Allowed values are: 'Asexual','Sexual'"

----------------------------------------------------------------------------
(* C10: /update with an observation_id that has no row answers             *)
(* 'Observation ID: "<id>" does not exist' and leaves the table as it was: *)
(* no row is created and none is modified.                                 *)
C10_UpdateMissingId ==
    [][\A w \in Workers :
        (/\ route[w] = "update" /\ pc[w] = "get" /\ pc'[w] # "get"
         /\ RowsOf(store, RequestId(w)) = {})
        => /\ pc'[w] = "done"
           /\ response'[w] = [error |-> DoesNotExist(RequestId(w))]
           /\ store' = store
      ]_vars

\* an /update for an id without a row has been answered while another id has a row
C10_Witness ==
    \E w \in Workers :
        /\ route[w] = "update" /\ pc[w] = "done"
        /\ response[w] = [error |-> DoesNotExist(RequestId(w))]
        /\ RowsOf(store, RequestId(w)) = {}
        /\ Len(store) = 1

----------------------------------------------------------------------------
(* Properties of /update and /list-db-contents *)

\* the label an /update request asks for
RequestLabel(w) == Observation(w)["label"]

\* the worker's /update is saving the row it fetched
Saving(w) == route[w] = "update" /\ pc[w] = "update_save" /\ pc'[w] = "done"

\* the worker's /update has saved
Corrected(w) == route[w] = "update" /\ pc[w] = "done" /\ ~Refused(w)

(* C11: /update of an existing observation_id changes only the label of    *)
(* that row: its observation_id and observation are the same before and    *)
(* after, and the number of rows is unchanged.                             *)
C11_UpdateKeepsObservation ==
    [][\A w \in Workers :
        Saving(w) =>
            /\ Len(store') = Len(store)
            /\ \A i \in DOMAIN store :
                /\ store'[i].id = store[i].id
                /\ store'[i].observation_id = store[i].observation_id
                /\ store'[i].observation = store[i].observation
      ]_vars

\* an /update has saved a row that a /predict inserted with its body
C11_Witness ==
    \E w \in Workers :
        /\ Corrected(w)
        /\ \E i \in RowsOf(store, RequestId(w)) :
            /\ store[i].observation \in WorkerBodies
            /\ store[i].label = TRUE

(* C12: after /update succeeds on an existing observation_id with label L, *)
(* true or false, the stored label is L and the response is                *)
(* {observation_id, label: L}; a correction to false leaves the stored     *)
(* label false.                                                            *)
C12_StoredLabelIsRequested ==
    [][\A w \in Workers :
        Saving(w) =>
            /\ response'[w] = [observation_id |-> RequestId(w), label |-> RequestLabel(w)]
            /\ \A i \in RowsOf(store', RequestId(w)) : store'[i].label = RequestLabel(w)
      ]_vars

(* C13: after N /predict requests have inserted, whatever failed           *)
(* validations, duplicate inserts and /update calls ran in between, a      *)
(* /list-db-contents returns exactly N rows, one per inserted              *)
(* observation_id, each with the observation_id and the observation that   *)
(* was inserted.                                                           *)
C13_ListReturnsInserted ==
    [][\A w \in Workers :
        (route[w] = "list" /\ pc[w] = "select" /\ pc'[w] = "done") =>
            LET rows == response'[w].rows
            IN  /\ Len(rows) = Len(inserted)
                /\ \A i, j \in DOMAIN rows :
                    rows[i].observation_id = rows[j].observation_id => i = j
                /\ \A k \in DOMAIN inserted :
                    \E i \in DOMAIN rows :
                        /\ rows[i].observation_id = inserted[k][1]
                        /\ rows[i].observation = inserted[k][2]
      ]_vars

\* two rows are listed after two inserts with distinct observation_ids
C13_Witness ==
    \E w \in Workers :
        /\ route[w] = "list" /\ pc[w] = "done"
        /\ "rows" \in DOMAIN response[w]
        /\ Len(response[w].rows) = 2 /\ Len(inserted) = 2
        /\ inserted[1][1] # inserted[2][1]

(* C14: rows are never deleted: an observation_id that has a row has one   *)
(* in every later state, whatever /predict, /update and /list-db-contents  *)
(* requests run; and only /predict creates rows.                           *)
C14_NeverDeleted ==
    [][/\ \A i \in DOMAIN store : RowsOf(store', store[i].observation_id) # {}
       /\ \A i \in DOMAIN store' :
            RowsOf(store, store'[i].observation_id) = {} =>
                \E w \in Workers :
                    /\ route[w] = "predict" /\ pc[w] = "save" /\ pc'[w] = "done"
                    /\ RequestId(w) = store'[i].observation_id
      ]_vars

\* the one row has outlived an /update of it and a refused /predict for it
C14_Witness ==
    \E w, v \in Workers :
        /\ Corrected(w)
        /\ Predicted(v) /\ Refused(v)
        /\ RequestId(w) = RequestId(v)
        /\ Len(store) = 1

(* C15: /update never calls the pipeline and runs neither the column check *)
(* nor the categorical check: a body of just observation_id and label for  *)
(* an existing id succeeds, and what /update answers and writes is decided *)
(* by those two fields and the table alone.                                *)
C15_UpdateReadsIdAndLabel ==
    [][\A w \in Workers :
        (route[w] = "update" /\ pc[w] # pc'[w]) =>
            /\ calls'[w] = 0
            /\ pc[w] = "get" =>
                /\ store' = store
                /\ IF RowsOf(store, RequestId(w)) = {}
                   THEN pc'[w] = "done" /\ response'[w] = [error |-> DoesNotExist(RequestId(w))]
                   ELSE pc'[w] = "update_save" /\ response'[w] = NoResponse
            /\ pc[w] = "update_save" =>
                /\ pc'[w] = "done"
                /\ response'[w] = [observation_id |-> RequestId(w), label |-> RequestLabel(w)]
                /\ \A i \in DOMAIN store :
                    store[i].observation_id # RequestId(w) => store'[i] = store[i]
      ]_vars

\* a body of just the two fields has corrected a stored row
C15_Witness ==
    \E w \in Workers :
        /\ Corrected(w)
        /\ Keys(request[w]) = {"observation_id", "label"}
        /\ response[w] = [observation_id |-> RequestId(w), label |-> RequestLabel(w)]
        /\ RowsOf(store, RequestId(w)) # {}

----------------------------------------------------------------------------
(* The steps of one /predict request (SpecOneFair) *)

PredictOrder ==
    { <<"check_valid_column", "check_categorical_values">>,
      <<"check_valid_column", "done">>,
      <<"check_categorical_values", "pipeline">>,
      <<"check_categorical_values", "done">>,
      <<"pipeline", "save">>,
      <<"save", "done">>,
      <<"done", "idle">> }

(* C16: every /predict goes Validating, Predicting, Persisting, Done: the  *)
(* pipeline is called at most once and only after both checks passed, the  *)
(* categorical check runs only if the column check passed, the insert is   *)
(* attempted at most once and only after the pipeline returned, and the    *)
(* request gets its response whenever validation fails, the insert         *)
(* succeeds or the insert meets a duplicate.                               *)
C16_PredictSteps ==
    /\ [][\A w \in Workers :
            (route[w] = "predict" /\ pc[w] # pc'[w]) =>
                /\ <<pc[w], pc'[w]>> \in PredictOrder
                /\ pc'[w] = "check_categorical_values" => Keys(request[w]) = RequiredFields
                /\ pc'[w] = "pipeline" => WellFormed(w)
                /\ pc'[w] # "idle" =>
                    /\ calls'[w] \in {0, 1}
                    /\ calls'[w] # calls[w] => pc[w] = "pipeline" /\ WellFormed(w)
                /\ pc'[w] = "save" => calls'[w] = 1
                /\ store' # store => pc[w] = "save" /\ calls[w] = 1
         ]_vars
    /\ \A w \in Workers : (route[w] = "predict") ~> (pc[w] = "done")

\* a request that passed both checks and called the pipeline once has its response
C16_Witness ==
    \E w \in Workers :
        /\ Predicted(w) /\ WellFormed(w)
        /\ p[w].id # 0

----------------------------------------------------------------------------
(* check_categorical_values on its own (SpecCall) *)

Absent(w, key) == key \notin Keys(request[w])

\* the first categorical field, in the order of the check, that is absent or invalid
FirstOffending(w) ==
    IF Absent(w, "Type") \/ InvalidCategory(w, "Type") THEN "Type"
    ELSE IF Absent(w, "Reproduction") \/ InvalidCategory(w, "Reproduction") THEN "Reproduction"
    ELSE "Age range"

(* C17: applied to an observation from which Type, Reproduction or Age     *)
(* range is altogether absent, the categorical check fails with an error   *)
(* that names the absent field (the field the check stops at).             *)
C17_AbsentFieldNamed ==
    \A w \in Workers :
        (/\ route[w] = "check_categorical_values" /\ pc[w] = "done"
         /\ Absent(w, FirstOffending(w)))
        => /\ response[w].categories_ok = FALSE
           /\ response[w].error.text = "Categorical field " \o FirstOffending(w) \o " missing"

----------------------------------------------------------------------------
(* C18: when two /update requests for the same existing observation_id are *)
(* in flight together, each a lookup followed by a save of the whole row,  *)
(* the table afterwards still holds exactly one row for the id, with the   *)
(* observation_id and observation it was inserted with, and its label is   *)
(* the one requested by one of the two.                                    *)
C18_ConcurrentUpdates ==
    [][\A w, v \in Workers :
        (/\ w # v
         /\ Saving(w) /\ Corrected(v)
         /\ RequestId(w) = RequestId(v)
         \* v saved between w's lookup and w's save: w holds a stale row
         /\ \E i \in RowsOf(store, RequestId(w)) : store[i] # p[w])
        => /\ Cardinality(RowsOf(store', RequestId(w))) = 1
           /\ \A i \in RowsOf(store', RequestId(w)) :
                /\ store'[i].observation_id = store[i].observation_id
                /\ store'[i].observation = store[i].observation
                /\ store'[i].label \in {RequestLabel(w), RequestLabel(v)}
      ]_vars

----------------------------------------------------------------------------
(* C19: a request changes at most the row of its own observation_id: after *)
(* any step of a /predict or /update for id X every row with another id    *)
(* is as it was, a row that appears is X's, and /list-db-contents changes  *)
(* nothing.                                                                *)
C19_OwnRowOnly ==
    [][\A w \in Workers :
        pc[w] # pc'[w] =>
            IF pc[w] \in {"save", "update_save"}
            THEN /\ \A i \in DOMAIN store :
                        store[i].observation_id # RequestId(w) =>
                            i \in DOMAIN store' /\ store'[i] = store[i]
                 /\ \A i \in DOMAIN store' \ DOMAIN store :
                        store'[i].observation_id = RequestId(w)
            ELSE store' = store
      ]_vars

\* an /update has rewritten its row while the other id's row keeps the label
\* the pipeline gave it
C19_Witness ==
    \E w \in Workers :
        /\ Corrected(w)
        /\ Len(store) = 2
        /\ \E i \in DOMAIN store :
            store[i].observation_id # RequestId(w) /\ store[i].label = FALSE

----------------------------------------------------------------------------
(* C20: a duplicate /predict never overwrites a correction: once /update   *)
(* has set the label of an id to L, a later /predict of that id answers    *)
(* with the pipeline's fresh label and the already-exists error, and the   *)
(* stored label is still L.                                                *)
C20_DuplicateKeepsCorrection ==
    [][\A w, v \in Workers :
        (/\ w # v
         /\ Corrected(v)
         /\ route[w] = "predict" /\ pc[w] = "save" /\ pc'[w] = "done"
         /\ RequestId(w) = RequestId(v))
        => /\ response'[w] = [observation_id |-> RequestId(w), label |-> label[w],
                              error |-> AlreadyExists(RequestId(w))]
           /\ \A i \in RowsOf(store', RequestId(w)) :
                store'[i].label = RequestLabel(v)
      ]_vars

====
